---------------------------- MODULE Spec2Model ----------------------------
(***************************************************************************)
(* Model of app/accounts/models.py: CustomAccountManager, UserAccount and  *)
(* OTP.  Strings are sequences of one-character strings, time is counted   *)
(* in seconds, the table of accounts is a sequence of rows whose index is  *)
(* the primary key.                                                        *)
(*                                                                         *)
(* Four specifications share the variables:                                *)
(*   Spec      the accounts table under create_user, create_superuser and  *)
(*             UserAccount.save;                                           *)
(*   SpecClean UserAccount.clean on in-memory instances;                   *)
(*   SpecNorm  the email normalisations as functions on strings;           *)
(*   SpecOtp   OTP.is_valid / OTP.is_expired on one OTP record under an    *)
(*             advancing clock.                                            *)
(***************************************************************************)
EXTENDS Integers, Sequences, FiniteSets, TLC

VARIABLES db, acctCall, obj, cleanCall, raw, applied, clock, otp, calls

vars == <<db, acctCall, obj, cleanCall, raw, applied, clock, otp, calls>>

acctVars == <<db, acctCall>>
cleanVars == <<obj, cleanCall>>
normVars == <<raw, applied>>
otpVars == <<clock, otp, calls>>

(***************************************************************************)
(* Bounds of the model.                                                    *)
(***************************************************************************)
MaxLen == 3
MaxApply == 3
MaxAccounts == 2
MaxCreate == 1
MaxTime == 303

(***************************************************************************)
(* Strings.                                                                *)
(***************************************************************************)
Chars == {"A", "a", "b", " ", "@"}

Whitespace == {" "}

StrUpTo(n) == UNION {[1..k -> Chars] : k \in 0..n}

\* Python None for an email attribute; never a member of StrUpTo(n).
None == <<"None">>

\* Python truth value of an optional string: None and "" are falsy.
Truthy(s) == s # None /\ s # <<>>

LowerChar(c) == IF c = "A" THEN "a" ELSE c

\* str.lower()
Lower(s) == [i \in 1..Len(s) |-> LowerChar(s[i])]

RECURSIVE LStrip(_)
LStrip(s) ==
    IF s # <<>> /\ Head(s) \in Whitespace THEN LStrip(Tail(s)) ELSE s

RECURSIVE RStrip(_)
RStrip(s) ==
    IF s # <<>> /\ s[Len(s)] \in Whitespace
    THEN RStrip(SubSeq(s, 1, Len(s) - 1))
    ELSE s

\* A strip that removes at most one whitespace character from each end.
StripOnce(s) ==
    LET l == IF s # <<>> /\ Head(s) \in Whitespace THEN Tail(s) ELSE s
    IN  IF l # <<>> /\ l[Len(l)] \in Whitespace
        THEN SubSeq(l, 1, Len(l) - 1)
        ELSE l

\* str.strip()
Strip(s) == RStrip(LStrip(s))

\* Index of the last "@" of s, 0 when there is none (str.rsplit("@", 1)).
LastAt(s) ==
    LET at == {i \in 1..Len(s) : s[i] = "@"}
    IN  IF at = {} THEN 0 ELSE CHOOSE i \in at : \A j \in at : j <= i

\* BaseUserManager.normalize_email, as called by normalize_email_strict:
\* None becomes "", an address with an "@" is stripped and its domain part
\* lower-cased, anything else is returned as it is.
normalize_email(email) ==
    LET e == IF Truthy(email) THEN email ELSE <<>>
        t == Strip(e)
        k == LastAt(t)
    IN  IF k = 0
        THEN e
        ELSE SubSeq(t, 1, k - 1) \o <<"@">> \o Lower(SubSeq(t, k + 1, Len(t)))

\* CustomAccountManager.normalize_email_strict
normalize_email_strict(email) == Strip(Lower(normalize_email(email)))

\* The first statement of UserAccount.save: the email the instance carries
\* when super().save() is reached.
save_email(email) == IF Truthy(email) THEN Strip(Lower(email)) ELSE email

(***************************************************************************)
(* SpecNorm: the two normalisations applied, one after the other, to a     *)
(* string.  applied[i] is the i-th application and its output.             *)
(***************************************************************************)
Current == IF applied = <<>> THEN raw ELSE applied[Len(applied)].out

\* email = self.normalize_email_strict(email)
NormalizeStrict ==
    /\ Len(applied) < MaxApply
    /\ applied' = Append(applied,
                     [op |-> "normalize_email_strict",
                      out |-> normalize_email_strict(Current)])
    /\ UNCHANGED <<raw, acctVars, cleanVars, otpVars>>

\* self.email = self.email.lower().strip(), guarded by "if self.email"
SaveEmail ==
    /\ Len(applied) < MaxApply
    /\ applied' = Append(applied,
                     [op |-> "save", out |-> save_email(Current)])
    /\ UNCHANGED <<raw, acctVars, cleanVars, otpVars>>

(***************************************************************************)
(* Accounts.  An instance is a record of the fields of UserAccount the     *)
(* manager and save() read or write; pk = 0 is an instance not yet stored. *)
(* The password hash is produced by the credential library and is not      *)
(* part of the record.                                                     *)
(***************************************************************************)
EMAIL == "email"
GOOGLE == "google"

\* UserAccount.AuthProvider
AuthProvider == {EMAIL, GOOGLE}

\* Python None for provider_uid (null=True).
NoUid == "<None>"

Uids == {NoUid, "", "g1"}

\* Python truth value of provider_uid.
UidTruthy(u) == u # NoUid /\ u # ""

\* Email arguments of the calls: absent, empty, blank, two addresses and
\* variants of them that differ in letter case or surrounding whitespace.
EmailInputs ==
    { None, <<>>, <<" ">>,
      <<"a", "@", "b">>, <<"A", "@", "b", " ">>,
      <<"b", "@", "a">>, <<" ", "b", "@", "A">> }

\* Field defaults of UserAccount.
FieldDefaults ==
    [pk |-> 0, email |-> <<>>, auth_provider |-> EMAIL, provider_uid |-> NoUid,
     is_staff |-> FALSE, is_superuser |-> FALSE, is_active |-> TRUE]

\* self.model(email=email, **extra_fields)
Model(email, extra_fields) ==
    [f \in DOMAIN FieldDefaults |->
        IF f = "email" THEN email
        ELSE IF f \in DOMAIN extra_fields THEN extra_fields[f]
        ELSE FieldDefaults[f]]

\* dict.setdefault
SetDefault(d, k, v) == IF k \in DOMAIN d THEN d ELSE (k :> v) @@ d

\* dict.get, None (falsy) when the key is absent
Get(d, k) == IF k \in DOMAIN d THEN d[k] ELSE FALSE

NoExtra == [f \in {} |-> FALSE]

\* A table write that does not enforce unique=True on email.
super_save_no_unique(table, inst) ==
    LET others == {i \in 1..Len(table) : i # inst.pk}
    IN  IF \/ inst.email = None
           \/ /\ inst.provider_uid # NoUid
              /\ \E i \in others : table[i].provider_uid = inst.provider_uid
        THEN [table |-> table, result |-> "IntegrityError", inst |-> inst]
        ELSE IF inst.pk = 0
        THEN LET row == [inst EXCEPT !.pk = Len(table) + 1]
             IN  [table |-> Append(table, row), result |-> "ok", inst |-> row]
        ELSE [table |-> [table EXCEPT ![inst.pk] = inst],
              result |-> "ok", inst |-> inst]

\* models.Model.save on the accounts table: email is NOT NULL and unique,
\* provider_uid is unique among the rows where it is not NULL; a violated
\* constraint raises IntegrityError and writes nothing.  No validation
\* (full_clean / clean) is part of it.
super_save(table, inst) ==
    LET others == {i \in 1..Len(table) : i # inst.pk}
    IN  IF \/ inst.email = None
           \/ \E i \in others : table[i].email = inst.email
           \/ /\ inst.provider_uid # NoUid
              /\ \E i \in others : table[i].provider_uid = inst.provider_uid
        THEN [table |-> table, result |-> "IntegrityError", inst |-> inst]
        ELSE IF inst.pk = 0
        THEN LET row == [inst EXCEPT !.pk = Len(table) + 1]
             IN  [table |-> Append(table, row), result |-> "ok", inst |-> row]
        ELSE [table |-> [table EXCEPT ![inst.pk] = inst],
              result |-> "ok", inst |-> inst]

\* A save() that normalises the email of a new instance only.
save_on_create_only(table, inst) ==
    super_save(table,
               IF inst.pk = 0
               THEN [inst EXCEPT !.email = save_email(@)]
               ELSE inst)

\* UserAccount.save
save(table, inst) == super_save(table, [inst EXCEPT !.email = save_email(@)])

\* CustomAccountManager.create_user
create_user(table, email, extra_fields) ==
    IF ~Truthy(email)
    THEN [table |-> table, result |-> "ValueError", inst |-> Model(email, NoExtra)]
    ELSE save(table, Model(normalize_email_strict(email), extra_fields))

\* CustomAccountManager.create_superuser
create_superuser(table, email, extra_fields) ==
    LET e1 == SetDefault(extra_fields, "is_staff", TRUE)
        e2 == SetDefault(e1, "is_superuser", TRUE)
        e3 == SetDefault(e2, "is_active", TRUE)
    IN  IF ~Get(e3, "is_staff") \/ ~Get(e3, "is_superuser")
        THEN [table |-> table, result |-> "ValueError",
              inst |-> Model(email, NoExtra)]
        ELSE create_user(table, email, e3)

\* Keyword arguments passed to create_user.
UserExtras ==
    {NoExtra, [auth_provider |-> GOOGLE]}
    \cup {[auth_provider |-> p, provider_uid |-> u] : p \in AuthProvider, u \in Uids}

\* Keyword arguments passed to create_superuser.
SuperuserExtras ==
    UNION {[S -> BOOLEAN] : S \in SUBSET {"is_staff", "is_superuser"}}

Called(op, pk, email, r) ==
    /\ db' = r.table
    /\ acctCall' = [op |-> op, pk |-> pk, email |-> email, result |-> r.result]
    /\ UNCHANGED <<cleanVars, normVars, otpVars>>

\* UserAccount.objects.create_user(email, **extra_fields)
CreateUser(email, extra_fields) ==
    /\ Len(db) < MaxAccounts
    /\ Called("create_user", 0, email, create_user(db, email, extra_fields))

\* UserAccount.objects.create_superuser(email, **extra_fields)
CreateSuperuser(email, extra_fields) ==
    /\ Len(db) < MaxAccounts
    /\ Called("create_superuser", 0, email,
              create_superuser(db, email, extra_fields))

\* UserAccount(email=..., auth_provider=..., provider_uid=...).save()
SaveNew(email, p, u) ==
    /\ Len(db) < MaxAccounts
    /\ Called("save", 0, email,
              save(db, Model(email, [auth_provider |-> p, provider_uid |-> u])))

\* An account is loaded, its email is assigned and it is saved again.
SaveExisting(pk, email) ==
    /\ pk \in 1..Len(db)
    /\ Called("save", pk, email, save(db, [db[pk] EXCEPT !.email = email]))

\* An account is loaded, its provider fields are assigned and it is saved
\* again.
SaveProvider(pk, p, u) ==
    /\ pk \in 1..Len(db)
    /\ Called("save", pk, db[pk].email,
              save(db, [db[pk] EXCEPT !.auth_provider = p, !.provider_uid = u]))

(***************************************************************************)
(* SpecClean: UserAccount.clean on an in-memory instance.                  *)
(***************************************************************************)
\* A clean() that only looks for a provider_uid of None.
clean_none_only(self) ==
    IF self.auth_provider # EMAIL /\ self.provider_uid = NoUid
    THEN [result |-> "ValidationError", self |-> self]
    ELSE [result |-> "ok", self |-> self]

\* UserAccount.clean: the outcome and the instance as the call leaves it.
clean(self) ==
    IF self.auth_provider # EMAIL /\ ~UidTruthy(self.provider_uid)
    THEN [result |-> "ValidationError", self |-> self]
    ELSE [result |-> "ok", self |-> self]

\* Attribute assignment on the instance.
Assign(pk, email, p, u) ==
    /\ obj' = [obj EXCEPT !.pk = pk, !.email = email, !.auth_provider = p,
                          !.provider_uid = u]
    /\ UNCHANGED <<cleanCall, acctVars, normVars, otpVars>>

\* obj.clean()
Clean ==
    LET r == clean(obj)
    IN  /\ obj' = r.self
        /\ cleanCall' = [result |-> r.result, before |-> obj, after |-> r.self]
        /\ UNCHANGED <<acctVars, normVars, otpVars>>

(***************************************************************************)
(* SpecOtp: one OTP record and the clock timezone.now() reads, in seconds. *)
(* otp is the table of OTP rows, empty until the record is created; calls  *)
(* is the set of calls answered at the current reading of the clock.       *)
(***************************************************************************)
SecondsPerMinute == 60

DefaultExpiryMinutes == 5

\* Values passed as expiry_minutes.
Minutes == {-1, 0, DefaultExpiryMinutes}

\* timedelta(minutes=m), in seconds
timedelta(m) == SecondsPerMinute * m

\* An is_valid that adds the window as seconds.
is_valid_seconds(self, expiry_minutes) ==
    LET expiry_time == self.created_at + expiry_minutes
    IN  clock <= expiry_time

\* An is_valid whose boundary is exclusive.
is_valid_exclusive(self, expiry_minutes) ==
    LET expiry_time == self.created_at + timedelta(expiry_minutes)
    IN  clock < expiry_time

\* An is_valid whose comparison is reversed.
is_valid_reversed(self, expiry_minutes) ==
    LET expiry_time == self.created_at + timedelta(expiry_minutes)
    IN  clock >= expiry_time

\* OTP.is_valid; clock is what timezone.now() returns.
is_valid(self, expiry_minutes) ==
    LET expiry_time == self.created_at + timedelta(expiry_minutes)
    IN  clock <= expiry_time

\* An is_expired that drops its argument.
is_expired_default(self, expiry_minutes) ==
    ~is_valid(self, DefaultExpiryMinutes)

\* OTP.is_expired
is_expired(self, expiry_minutes) == ~is_valid(self, expiry_minutes)

\* The clock advances; the calls answered at the earlier reading are past.
Tick(d) ==
    /\ clock + d <= MaxTime
    /\ clock' = clock + d
    /\ calls' = {}
    /\ UNCHANGED <<otp, acctVars, cleanVars, normVars>>

\* OTP.objects.create(user=..., otp_hash=...): auto_now_add sets created_at.
CreateOtp ==
    /\ otp = <<>>
    /\ clock <= MaxCreate
    /\ otp' = <<[user |-> 1, otp_hash |-> "h", created_at |-> clock]>>
    /\ UNCHANGED <<clock, calls, acctVars, cleanVars, normVars>>

Answered(op, m, result) ==
    [op |-> op, minutes |-> m, result |-> result,
     before |-> otp[1], after |-> otp'[1]]

\* An is_valid call that refreshes created_at, as auto_now would.
IsValidTouching(m) ==
    /\ otp # <<>>
    /\ otp' = <<[otp[1] EXCEPT !.created_at = clock]>>
    /\ calls' = calls \cup {Answered("is_valid", m, is_valid(otp[1], m))}
    /\ UNCHANGED <<clock, acctVars, cleanVars, normVars>>

\* otp.is_valid(m)
IsValid(m) ==
    /\ otp # <<>>
    /\ otp' = otp
    /\ calls' = calls \cup {Answered("is_valid", m, is_valid(otp[1], m))}
    /\ UNCHANGED <<clock, acctVars, cleanVars, normVars>>

\* otp.is_expired(m)
IsExpired(m) ==
    /\ otp # <<>>
    /\ otp' = otp
    /\ calls' = calls \cup {Answered("is_expired", m, is_expired(otp[1], m))}
    /\ UNCHANGED <<clock, acctVars, cleanVars, normVars>>

(***************************************************************************)
(* Specifications.                                                         *)
(***************************************************************************)
NoCall == [op |-> "none", pk |-> 0, email |-> <<>>, result |-> "none"]

NoClean == [result |-> "none"]

Idle ==
    /\ db = <<>>
    /\ acctCall = NoCall
    /\ obj = Model(<<>>, NoExtra)
    /\ cleanCall = NoClean
    /\ raw = <<>>
    /\ applied = <<>>
    /\ clock = 0
    /\ otp = <<>>
    /\ calls = {}

Init == Idle

Next ==
    \/ \E email \in EmailInputs, e \in UserExtras : CreateUser(email, e)
    \/ \E email \in EmailInputs, e \in SuperuserExtras : CreateSuperuser(email, e)
    \/ \E email \in EmailInputs, p \in AuthProvider, u \in Uids :
          SaveNew(email, p, u)
    \/ \E pk \in 1..MaxAccounts, email \in EmailInputs : SaveExisting(pk, email)
    \/ \E pk \in 1..MaxAccounts, p \in AuthProvider, u \in Uids :
          SaveProvider(pk, p, u)

Spec == Init /\ [][Next]_vars

InitClean == Idle

NextClean ==
    \/ \E pk \in 0..1, email \in EmailInputs, p \in AuthProvider, u \in Uids :
          Assign(pk, email, p, u)
    \/ Clean

SpecClean == InitClean /\ [][NextClean]_vars

InitNorm ==
    /\ raw \in StrUpTo(MaxLen)
    /\ db = <<>>
    /\ acctCall = NoCall
    /\ obj = Model(<<>>, NoExtra)
    /\ cleanCall = NoClean
    /\ applied = <<>>
    /\ clock = 0
    /\ otp = <<>>
    /\ calls = {}

NextNorm == NormalizeStrict \/ SaveEmail

SpecNorm == InitNorm /\ [][NextNorm]_vars

InitOtp == Idle

NextOtp ==
    \/ \E d \in {1, SecondsPerMinute} : Tick(d)
    \/ CreateOtp
    \/ \E m \in Minutes : IsValid(m)
    \/ \E m \in Minutes : IsExpired(m)

SpecOtp == InitOtp /\ [][NextOtp]_vars

(***************************************************************************)
(* Properties.                                                             *)
(***************************************************************************)
\* No upper-case letter, no whitespace at either end.
IsNormalised(s) ==
    /\ \A i \in 1..Len(s) : s[i] # "A"
    /\ s = <<>> \/ (s[1] \notin Whitespace /\ s[Len(s)] \notin Whitespace)

\* The canonical form of an email: lower-cased and trimmed.
Canonical(s) == Strip(Lower(s))

\* C1: after any sequence of create_user, create_superuser and save calls,
\* creates and updates alike, the email of every stored account is
\* lower-cased and has no leading or trailing whitespace.
C1_StoredEmailsNormalised ==
    \A i \in 1..Len(db) : db[i].email # None /\ IsNormalised(db[i].email)

\* An update assigned an email that was not normalised and was stored.
C1_Witness ==
    /\ acctCall.op = "save"
    /\ acctCall.pk \in 1..Len(db)
    /\ acctCall.result = "ok"
    /\ acctCall.email # None
    /\ ~IsNormalised(acctCall.email)
    /\ db[acctCall.pk].email = Canonical(acctCall.email)
    /\ db[acctCall.pk].email # <<>>

\* C2: no stored account has an auth_provider other than EMAIL together
\* with an empty or absent provider_uid (provider validation runs before
\* every write).
C2_StoredProvidersValid ==
    \A i \in 1..Len(db) :
        db[i].auth_provider # EMAIL => db[i].provider_uid \notin {NoUid, ""}

\* C3: clean fails with the validation error exactly when auth_provider is
\* not EMAIL and provider_uid is None or "", succeeds on every other
\* combination, and leaves every field of the instance as it was.
C3_CleanOutcome ==
    cleanCall.result # "none" =>
        /\ cleanCall.result \in {"ok", "ValidationError"}
        /\ cleanCall.result = "ValidationError" <=>
              /\ cleanCall.before.auth_provider # EMAIL
              /\ cleanCall.before.provider_uid \in {NoUid, ""}
        /\ cleanCall.after = cleanCall.before

\* clean rejected a GOOGLE instance whose provider_uid is the empty string.
C3_Witness ==
    /\ cleanCall.result = "ValidationError"
    /\ cleanCall.before.auth_provider = GOOGLE
    /\ cleanCall.before.provider_uid = ""
    /\ obj = cleanCall.before

\* Seconds between the creation of the record a call was made on and the
\* current reading of the clock.
Elapsed(c) == clock - c.before.created_at

\* C4: is_valid returns true exactly when now <= created_at + window; with
\* the default window of 5 minutes it is true at created_at, true at
\* created_at + 5 minutes and false one second later.
C4_ValidIffWithinWindow ==
    \A c \in calls :
        c.op = "is_valid" =>
            /\ c.result <=> Elapsed(c) <= 60 * c.minutes
            /\ c.minutes = 5 /\ Elapsed(c) \in {0, 5 * 60} => c.result
            /\ c.minutes = 5 /\ Elapsed(c) = 5 * 60 + 1 => ~c.result

\* is_valid with the default window answered true at the expiry instant.
C4_Witness ==
    \E c \in calls :
        /\ c.op = "is_valid"
        /\ c.minutes = 5
        /\ Elapsed(c) = 5 * 60
        /\ c.result

\* C5 as stated: with a zero or negative window is_valid is false for
\* every now >= created_at except at now = created_at, where it is true.
C5_TrueAtCreationOnly ==
    \A c \in calls :
        c.op = "is_valid" /\ c.minutes <= 0 =>
            (c.result <=> Elapsed(c) = 0)

\* C5 amended: with a zero window is_valid is true at now = created_at and
\* false at every later now; with a negative window it is false at every
\* now >= created_at, the creation instant included.
C5_NonPositiveWindow ==
    \A c \in calls :
        c.op = "is_valid" /\ c.minutes <= 0 =>
            /\ Elapsed(c) >= 0
            /\ c.result <=> (c.minutes = 0 /\ Elapsed(c) = 0)

\* is_valid with a negative window answered false at the creation instant.
C5_Witness ==
    \E c \in calls :
        /\ c.op = "is_valid"
        /\ c.minutes < 0
        /\ Elapsed(c) = 0
        /\ ~c.result

C7_ExpiredIsNegation ==
    \A c1, c2 \in calls :
        c1.op = "is_valid" /\ c2.op = "is_expired" /\ c1.minutes = c2.minutes
            => c2.result = ~c1.result

\* Both were called with the window 0 after the creation instant.
C7_Witness ==
    \E c1, c2 \in calls :
        /\ c1.op = "is_valid"
        /\ c2.op = "is_expired"
        /\ c1.minutes = 0
        /\ c2.minutes = 0
        /\ Elapsed(c1) > 0
        /\ c2.result

\* C8: normalisation is idempotent: normalising a normalised email, or
\* saving an account whose email is normalised, leaves the email as it is.
C8_Idempotent ==
    \A i \in 2..Len(applied) : applied[i].out = applied[i - 1].out

\* normalize_email_strict changed the string, then normalize_email_strict
\* and save were applied to its output.
C8_Witness ==
    /\ Len(applied) = 3
    /\ applied[1].op = "normalize_email_strict"
    /\ applied[1].out # raw
    /\ applied[2].op = "normalize_email_strict"
    /\ applied[3].op = "save"

\* C9: for a fixed record and window, while the clock does not go back,
\* once is_valid is false it is never true again.
C9_ExpiryMonotonic ==
    [][otp # <<>> /\ otp' = otp /\ clock' >= clock =>
          \A m \in Minutes :
              ~is_valid(otp[1], m) => ~(is_valid(otp[1], m))']_vars

\* is_expired with the default window answered true.
C9_Witness ==
    \E c \in calls :
        /\ c.op = "is_expired"
        /\ c.minutes = DefaultExpiryMinutes
        /\ c.result
        /\ Elapsed(c) > timedelta(DefaultExpiryMinutes)

C10_Distinct ==
    \A i, j \in 1..Len(db) :
        i # j => Canonical(db[i].email) # Canonical(db[j].email)

C10_Rejected ==
    (/\ acctCall'.op \in {"create_user", "save"}
     /\ acctCall'.email # None
     /\ \E i \in 1..Len(db) :
           /\ i # acctCall'.pk
           /\ Canonical(db[i].email) = Canonical(acctCall'.email))
    => acctCall'.result # "ok" /\ db' = db

\* C10: no two stored accounts have emails that are equal after
\* lower-casing and trimming, and a create or update whose email equals
\* another stored account's email up to letter case and surrounding
\* whitespace is rejected and leaves the table as it was.
C10_UniqueUpToCase == []C10_Distinct /\ [][C10_Rejected]_vars

\* A call whose email differs from a stored one in case or whitespace only
\* was rejected by the unique constraint.
C10_Witness ==
    /\ acctCall.result = "IntegrityError"
    /\ acctCall.email # None
    /\ \E i \in 1..Len(db) :
          /\ i # acctCall.pk
          /\ db[i].email # acctCall.email
          /\ db[i].email = Canonical(acctCall.email)
          /\ \A j \in 1..Len(db) : j # i => db[j].provider_uid = NoUid

=============================================================================
